---- MODULE Spec2Model ----
(***************************************************************************)
(* A model of predict.py: configuration loading (Config), backend          *)
(* construction (Detector.__init__, load_predictor, load_executor), the    *)
(* input adapter (create_inputs) and the detection decoder                 *)
(* (Detector.postprocess, Detector.predict, DetectorSOLOv2.predict).       *)
(*                                                                         *)
(* Python strings that are searched by substring are sequences of          *)
(* one-character strings.  Python None is the record None, an optional     *)
(* value v is Some(v).  A NumPy array is a record [shape, rows].  Scores   *)
(* and thresholds are in tenths, box coordinates are fixed-point numbers;  *)
(* the decoder only compares and multiplies them.                          *)
(***************************************************************************)
EXTENDS Integers, Sequences, FiniteSets, TLC

VARIABLES pc, config, detector, err, call, np_boxes

vars == <<pc, config, detector, err, call, np_boxes>>

None == [none |-> TRUE]
Some(v) == [val |-> v]

(***************************************************************************)
(* Bounds of the model.                                                    *)
(***************************************************************************)
MaxArchLen == 3
MaxBoxes == 2
MaxRuns == 2

(***************************************************************************)
(* Strings.                                                                *)
(***************************************************************************)
YOLO == <<"Y", "O", "L", "O">>
SSD == <<"S", "S", "D">>
RetinaNet == <<"R", "e", "t", "i", "n", "a", "N", "e", "t">>
EfficientDet == <<"E", "f", "f", "i", "c", "i", "e", "n", "t", "D", "e", "t">>
RCNN == <<"R", "C", "N", "N">>
Face == <<"F", "a", "c", "e">>
TTF == <<"T", "T", "F">>
FCOS == <<"F", "C", "O", "S">>
SOLOv2 == <<"S", "O", "L", "O", "v", "2">>

SUPPORT_MODELS ==
    {YOLO, SSD, RetinaNet, EfficientDet, RCNN, Face, TTF, FCOS, SOLOv2}

\* Python's `sub in s` on strings: sub occurs in s at some offset.
Contains(sub, s) ==
    \E i \in 0..(Len(s) - Len(sub)) : SubSeq(s, i + 1, i + Len(sub)) = sub

\* Every string over alphabet of length at most n.
StringsUpTo(alphabet, n) == UNION {[1..k -> alphabet] : k \in 0..n}

(***************************************************************************)
(* Config.                                                                 *)
(***************************************************************************)
RequiredKeys ==
    {"arch", "Preprocess", "use_python_inference", "min_subgraph_size",
     "label_list"}

\* check_model with equality in place of `in`.
check_model_exact(yml_conf) ==
    \E support_model \in SUPPORT_MODELS : support_model = yml_conf.arch

\* Config.check_model: TRUE when it returns True, FALSE when it raises
\* ValueError.
check_model(yml_conf) ==
    \E support_model \in SUPPORT_MODELS : Contains(support_model, yml_conf.arch)

\* Config.__init__: the exception raised ("none" when it returns) and the
\* object built.
ConfigInit(yml_conf) ==
    IF "arch" \notin DOMAIN yml_conf
    THEN [err |-> "KeyError", config |-> None]
    ELSE IF ~check_model(yml_conf)
    THEN [err |-> "ValueError", config |-> None]
    ELSE IF ~(RequiredKeys \subseteq DOMAIN yml_conf)
    THEN [err |-> "KeyError", config |-> None]
    ELSE [err |-> "none",
          config |->
            [arch |-> yml_conf.arch,
             preprocess_infos |-> yml_conf.Preprocess,
             use_python_inference |-> yml_conf.use_python_inference,
             min_subgraph_size |-> yml_conf.min_subgraph_size,
             labels |-> yml_conf.label_list,
             mask_resolution |->
                IF "mask_resolution" \in DOMAIN yml_conf
                THEN Some(yml_conf.mask_resolution) ELSE None,
             with_lmk |->
                IF "with_lmk" \in DOMAIN yml_conf
                THEN Some(yml_conf.with_lmk) ELSE None]]

(***************************************************************************)
(* Backends.                                                               *)
(***************************************************************************)
PrecisionOf(run_mode) ==
    CASE run_mode = "trt_int8" -> "Int8"
      [] run_mode = "trt_fp32" -> "Float32"
      [] run_mode = "trt_fp16" -> "Half"

precision_map_keys == {"trt_int8", "trt_fp32", "trt_fp16"}

\* load_predictor: the exception raised and the predictor built.  The
\* predictor records what the AnalysisConfig was given: the device and the
\* TensorRT engine, if one was enabled.
load_predictor(run_mode, use_gpu, min_subgraph_size) ==
    IF ~use_gpu /\ ~(run_mode = "fluid")
    THEN [err |-> "ValueError", predictor |-> None]
    ELSE IF run_mode = "trt_int8"
    THEN [err |-> "ValueError", predictor |-> None]
    ELSE [err |-> "none",
          predictor |->
            [use_gpu |-> use_gpu,
             tensorrt |->
                IF run_mode \in precision_map_keys
                THEN Some([precision_mode |-> PrecisionOf(run_mode),
                           min_subgraph_size |-> min_subgraph_size])
                ELSE None]]

\* load_executor: never raises on its arguments.
load_executor(use_gpu) ==
    [place |-> IF use_gpu THEN "CUDAPlace" ELSE "CPUPlace"]

\* Detector.__init__: the exception raised and the object built.
DetectorInit(cfg, use_gpu, run_mode) ==
    IF cfg.use_python_inference
    THEN [err |-> "none", detector |-> [executor |-> load_executor(use_gpu)]]
    ELSE LET p == load_predictor(run_mode, use_gpu, cfg.min_subgraph_size)
         IN  IF p.err # "none"
             THEN [err |-> p.err, detector |-> None]
             ELSE [err |-> "none", detector |-> [predictor |-> p.predictor]]

DetectorClasses == {"Detector", "DetectorSOLOv2"}

\* class(config, model_dir, use_gpu, run_mode): the instance carries its class.
New(class, cfg, use_gpu, run_mode) ==
    LET r == DetectorInit(cfg, use_gpu, run_mode)
    IN  IF r.err # "none" THEN r
        ELSE [err |-> "none", detector |-> [class |-> class] @@ r.detector]

(***************************************************************************)
(* NumPy arrays.                                                           *)
(***************************************************************************)
Arr(shape, rows) == [shape |-> shape, rows |-> rows]

\* np.array([])
EmptyArray == Arr(<<0>>, <<>>)

RECURSIVE Product(_)
\* reduce(lambda x, y: x * y, shape)
Product(shape) ==
    IF Len(shape) = 1 THEN shape[1] ELSE shape[1] * Product(Tail(shape))

\* ndarray.astype('int32') on the entries of im.shape[:2]: image dimensions
\* are integers far below 2^31, which the cast keeps.
AsInt32(x) == x

RECURSIVE Ulp(_)
\* The spacing of float32 values at magnitude x (24 bits of mantissa).
Ulp(x) == IF x < 16777216 THEN 1 ELSE 2 * Ulp(x \div 2)

\* ndarray.astype('float32') on a number held as an integer count of a power
\* of two unit: round to 24 bits of mantissa, ties to even.
AsFloat32(x) ==
    LET a == IF x < 0 THEN -x ELSE x
        u == Ulp(a)
        q == a \div u
        r == a % u
        m == IF 2 * r < u THEN q
             ELSE IF 2 * r > u THEN q + 1
             ELSE IF q % 2 = 0 THEN q ELSE q + 1
    IN  IF x < 0 THEN -(m * u) ELSE m * u

Tensor(dtype, data) == [dtype |-> dtype, data |-> data]

RECURSIVE BoolIndex(_, _)
\* rows[mask] for a boolean mask over the first axis: the rows whose mask
\* entry is True, in order.
BoolIndex(rows, mask) ==
    IF rows = <<>>
    THEN <<>>
    ELSE (IF Head(mask) THEN <<Head(rows)>> ELSE <<>>)
         \o BoolIndex(Tail(rows), Tail(mask))

(***************************************************************************)
(* create_inputs.                                                          *)
(***************************************************************************)
\* The first-match mutant: TTF is tested before RCNN/FCOS.
create_inputs_reordered(im, im_info, model_arch) ==
    LET origin_shape == im_info.origin_shape
        resize_shape == im_info.resize_shape
        pad_shape == IF im_info.pad_shape # None
                     THEN im_info.pad_shape.val ELSE im_info.resize_shape
        scale_x == im_info.scale[1]
        scale_y == im_info.scale[2]
        F(seq) == [i \in DOMAIN seq |-> AsFloat32(seq[i])]
        inputs == [image |-> im]
    IN  IF Contains(YOLO, model_arch)
        THEN [image |-> im,
              im_size |-> Tensor("int32",
                 <<[i \in DOMAIN origin_shape |-> AsInt32(origin_shape[i])]>>)]
        ELSE IF Contains(RetinaNet, model_arch)
                \/ Contains(EfficientDet, model_arch)
        THEN [image |-> im,
              im_info |-> Tensor("float32", <<F(pad_shape \o <<scale_x>>)>>)]
        ELSE IF Contains(TTF, model_arch)
        THEN [image |-> im,
              scale_factor |->
                 Tensor("float32", F(<<scale_x, scale_y, scale_x, scale_y>>))]
        ELSE IF Contains(RCNN, model_arch) \/ Contains(FCOS, model_arch)
        THEN [image |-> im,
              im_info |-> Tensor("float32", <<F(pad_shape \o <<scale_x>>)>>),
              im_shape |-> Tensor("float32", <<F(origin_shape \o <<1>>)>>)]
        ELSE IF Contains(SOLOv2, model_arch)
        THEN [image |-> im,
              im_info |->
                 Tensor("float32", <<F(resize_shape \o <<scale_x>>)>>)]
        ELSE inputs

\* create_inputs(im, im_info, model_arch): the dict of named input tensors.
create_inputs(im, im_info, model_arch) ==
    LET origin_shape == im_info.origin_shape
        resize_shape == im_info.resize_shape
        pad_shape == IF im_info.pad_shape # None
                     THEN im_info.pad_shape.val ELSE im_info.resize_shape
        scale_x == im_info.scale[1]
        scale_y == im_info.scale[2]
        F(seq) == [i \in DOMAIN seq |-> AsFloat32(seq[i])]
        inputs == [image |-> im]
    IN  IF Contains(YOLO, model_arch)
        THEN [image |-> im,
              im_size |-> Tensor("int32",
                 <<[i \in DOMAIN origin_shape |-> AsInt32(origin_shape[i])]>>)]
        ELSE IF Contains(RetinaNet, model_arch)
                \/ Contains(EfficientDet, model_arch)
        THEN [image |-> im,
              im_info |-> Tensor("float32", <<F(pad_shape \o <<scale_x>>)>>)]
        ELSE IF Contains(RCNN, model_arch) \/ Contains(FCOS, model_arch)
        THEN [image |-> im,
              im_info |-> Tensor("float32", <<F(pad_shape \o <<scale_x>>)>>),
              im_shape |-> Tensor("float32", <<F(origin_shape \o <<1>>)>>)]
        ELSE IF Contains(TTF, model_arch)
        THEN [image |-> im,
              scale_factor |->
                 Tensor("float32", F(<<scale_x, scale_y, scale_x, scale_y>>))]
        ELSE IF Contains(SOLOv2, model_arch)
        THEN [image |-> im,
              im_info |->
                 Tensor("float32", <<F(resize_shape \o <<scale_x>>)>>)]
        ELSE inputs

(***************************************************************************)
(* Detector.preprocess.                                                    *)
(***************************************************************************)
\* The names line 32 imports, which eval(op_type) resolves to a transform.
KnownTransforms == {"Resize", "Normalize", "Permute", "PadStride"}

\* utils.preprocess.preprocess(im, preprocess_ops): the image tensor and the
\* im_info of the image.  An image is given with the shapes and scales the
\* transforms compute for it.
preprocess_ops_run(image) == [im |-> image.im, im_info |-> image.im_info]

\* Detector.preprocess(im): the exception raised, inputs and im_info.
preprocess(cfg, image) ==
    IF \E i \in DOMAIN cfg.preprocess_infos :
          cfg.preprocess_infos[i] \notin KnownTransforms
    THEN [err |-> "NameError", inputs |-> None, im_info |-> None]
    ELSE LET r == preprocess_ops_run(image)
         IN  [err |-> "none",
              inputs |-> create_inputs(r.im, r.im_info, cfg.arch),
              im_info |-> r.im_info]

(***************************************************************************)
(* Detector.postprocess.                                                   *)
(***************************************************************************)
\* utils.visualize.lmk2out(np_boxes, np_lmk, im_info, threshold): landmark
\* points per detection, aligned to the rows the box filter keeps.
lmk2out(boxes, np_lmk, im_info, threshold) ==
    IF Len(boxes.shape) = 2 /\ boxes.shape[2] >= 2
    THEN BoolIndex([i \in DOMAIN boxes.rows |-> <<"lmk", i>>],
                   [i \in DOMAIN boxes.rows |->
                       boxes.rows[i][2] > threshold /\ boxes.rows[i][1] > -1])
    ELSE <<>>

\* The in-place scaling with the two factors exchanged.
ScaleRowSwapped(row, w, h) ==
    [row EXCEPT ![3] = @ * w, ![4] = @ * h, ![5] = @ * w, ![6] = @ * h]

\* np_boxes[:, 2] *= h; [:, 3] *= w; [:, 4] *= h; [:, 5] *= w on one row
\* (columns are numbered from 1 here).
ScaleRow(row, w, h) ==
    [row EXCEPT ![3] = @ * h, ![4] = @ * w, ![5] = @ * h, ![6] = @ * w]

\* The row filter with >= in place of >.
expect_box_inclusive(row, threshold) == (row[2] >= threshold) /\ (row[1] > -1)

\* (np_boxes[:, 1] > threshold) & (np_boxes[:, 0] > -1) on one row.
expect_box(row, threshold) == (row[2] > threshold) /\ (row[1] > -1)

\* self.config.arch in ['SSD', 'Face']
IsNormalizedArch(arch) == arch \in {SSD, Face}

\* Detector.postprocess(np_boxes, np_masks, np_lmk, im_info, threshold): the
\* exception raised, the dict returned, and the array the caller passed as
\* np_boxes as the call leaves it.  Indexing column 1 (and, for SSD/Face,
\* column 2 first) of an array that is not [N, >= 6] raises IndexError before
\* anything is written.
postprocess(cfg, boxes, np_masks, np_lmk, im_info, threshold) ==
    IF ~(Len(boxes.shape) = 2 /\ boxes.shape[2] >= 6)
    THEN [err |-> "IndexError", results |-> None, np_boxes |-> boxes]
    ELSE
    LET w == im_info.origin_shape[1]
        h == im_info.origin_shape[2]
        scaled ==
            IF IsNormalizedArch(cfg.arch)
            THEN Arr(boxes.shape,
                     [i \in DOMAIN boxes.rows |-> ScaleRow(boxes.rows[i], w, h)])
            ELSE boxes
        expect_boxes ==
            [i \in DOMAIN scaled.rows |-> expect_box(scaled.rows[i], threshold)]
        kept == BoolIndex(scaled.rows, expect_boxes)
        out_boxes == Arr(<<Len(kept), scaled.shape[2]>>, kept)
        with_boxes == [boxes |-> out_boxes]
        with_lmk ==
            IF np_lmk # None
            THEN [landmark |-> lmk2out(boxes, np_lmk, im_info, threshold)]
                 @@ with_boxes
            ELSE with_boxes
        with_masks ==
            IF np_masks # None
            THEN LET m == BoolIndex(np_masks.rows, expect_boxes)
                 IN  [masks |-> Arr(<<Len(m)>> \o Tail(np_masks.shape), m)]
                     @@ with_lmk
            ELSE with_lmk
    IN  [err |-> "none", results |-> with_masks, np_boxes |-> scaled]

(***************************************************************************)
(* The backend and Detector.predict.                                       *)
(***************************************************************************)
\* One executor.run / zero_copy_run on a backend that answers outs.
BackendRun(st, outs) == [st EXCEPT !.runs = @ + 1, !.outs = Some(outs)]

\* The body of the optimized mode's loops: run, then read the outputs back by
\* position.
PredictorStep(cfg, st, outs) ==
    LET ran == BackendRun(st, outs)
        got == ran.outs.val
    IN  [ran EXCEPT
           !.np_boxes = got[1],
           !.np_masks = IF cfg.mask_resolution # None THEN got[2] ELSE @,
           !.np_lmk = IF cfg.with_lmk # None /\ cfg.with_lmk = Some(TRUE)
                      THEN Some(<<got[2], got[3], got[4]>>) ELSE @]

RECURSIVE ExecutorLoopExtraRun(_, _, _)
\* The executor loop with one iteration too many.
ExecutorLoopExtraRun(n, st, outs) ==
    IF n = 0 THEN BackendRun(st, outs)
    ELSE ExecutorLoopExtraRun(n - 1, BackendRun(st, outs), outs)

RECURSIVE ExecutorLoop(_, _, _)
\* for i in range(n): outs = self.executor.run(...)
ExecutorLoop(n, st, outs) ==
    IF n = 0 THEN st ELSE ExecutorLoop(n - 1, BackendRun(st, outs), outs)

RECURSIVE PredictorLoop(_, _, _, _)
\* for i in range(n): self.predictor.zero_copy_run(); ...copy_to_cpu()
PredictorLoop(n, cfg, st, outs) ==
    IF n = 0 THEN st
    ELSE PredictorLoop(n - 1, cfg, PredictorStep(cfg, st, outs), outs)

Locals0 ==
    [runs |-> 0, outs |-> None, np_boxes |-> None, np_masks |-> None,
     np_lmk |-> None]

\* Lines 130-199 of Detector.predict: the locals after both loops.
RunBackend(cfg, outs, warmup, repeats) ==
    IF cfg.use_python_inference
    THEN LET st == ExecutorLoop(repeats,
                                ExecutorLoop(warmup, Locals0, outs), outs)
         IN  [st EXCEPT
                !.np_boxes = st.outs.val[1],
                !.np_masks = IF cfg.mask_resolution # None
                             THEN st.outs.val[2] ELSE @]
    ELSE PredictorLoop(repeats, cfg,
                       PredictorLoop(warmup, cfg, Locals0, outs), outs)

\* Detector.predict(image, threshold, warmup, repeats, run_benchmark) on a
\* backend that answers outs: the exception raised, the value returned, the
\* inputs built and the number of backend runs.  The list [] is <<>>.
predict(cfg, image, outs, threshold, warmup, repeats, run_benchmark) ==
    LET pre == preprocess(cfg, image) IN
    IF pre.err # "none"
    THEN [err |-> pre.err, results |-> None, inputs |-> None, runs |-> 0]
    ELSE
    LET st == RunBackend(cfg, outs, warmup, repeats)
        lmk == IF st.np_lmk = None THEN None ELSE st.np_lmk.val
    IN  IF run_benchmark
        THEN [err |-> "none", results |-> <<>>, inputs |-> pre.inputs,
              runs |-> st.runs]
        ELSE IF Product(st.np_boxes.shape) < 6
        THEN [err |-> "none", results |-> [boxes |-> EmptyArray],
              inputs |-> pre.inputs, runs |-> st.runs]
        ELSE LET post == postprocess(cfg, st.np_boxes, st.np_masks, lmk,
                                     pre.im_info, threshold)
             IN  [err |-> post.err, results |-> post.results,
                  inputs |-> pre.inputs, runs |-> st.runs]

\* The body of DetectorSOLOv2's optimized loops.
SoloStep(st, outs) ==
    LET ran == BackendRun(st, outs)
    IN  [ran EXCEPT !.np_label = ran.outs.val[1],
                    !.np_score = ran.outs.val[2],
                    !.np_segms = ran.outs.val[3]]

RECURSIVE SoloLoop(_, _, _)
\* for i in range(n): self.predictor.zero_copy_run(); ...copy_to_cpu()
SoloLoop(n, st, outs) ==
    IF n = 0 THEN st ELSE SoloLoop(n - 1, SoloStep(st, outs), outs)

SoloLocals0 ==
    [runs |-> 0, outs |-> None, np_label |-> None, np_score |-> None,
     np_segms |-> None]

\* DetectorSOLOv2.predict: the same loops, reading label, score and segm;
\* nothing is filtered.
predictSOLOv2(cfg, image, outs, threshold, warmup, repeats, run_benchmark) ==
    LET pre == preprocess(cfg, image) IN
    IF pre.err # "none"
    THEN [err |-> pre.err, results |-> None, inputs |-> None, runs |-> 0]
    ELSE
    LET st == IF cfg.use_python_inference
              THEN LET e == ExecutorLoop(repeats,
                               ExecutorLoop(warmup, SoloLocals0, outs), outs)
                   IN  [e EXCEPT !.np_label = e.outs.val[1],
                                 !.np_score = e.outs.val[2],
                                 !.np_segms = e.outs.val[3]]
              ELSE SoloLoop(repeats, SoloLoop(warmup, SoloLocals0, outs), outs)
    IN  [err |-> "none",
         results |-> IF run_benchmark THEN <<>>
                     ELSE [segm |-> st.np_segms, label |-> st.np_label,
                           score |-> st.np_score],
         inputs |-> pre.inputs, runs |-> st.runs]

(***************************************************************************)
(* Inputs of the construction stage.                                       *)
(***************************************************************************)
YOLOv3 == YOLO \o <<"v", "3">>
SSDLite == SSD \o <<"L", "i", "t", "e">>
BlazeFace == <<"B", "l", "a", "z", "e">> \o Face
MaskRCNN == <<"M", "a", "s", "k">> \o RCNN
TTFNet == TTF \o <<"N", "e", "t">>
RCNN_YOLO == RCNN \o <<"_">> \o YOLO
TTF_FCOS == TTF \o <<"_">> \o FCOS
ResNet == <<"R", "e", "s", "N", "e", "t">>

\* Names of exported models, names that carry two family names, and names
\* that carry none.
ArchNames ==
    {YOLOv3, SSD, Face, SSDLite, BlazeFace, RetinaNet, EfficientDet, MaskRCNN,
     FCOS, TTFNet, SOLOv2, RCNN_YOLO, TTF_FCOS, ResNet,
     <<"y", "o", "l", "o">>, <<"S", "S">>}

ArchStrings == ArchNames \cup StringsUpTo({"S", "D"}, MaxArchLen)

StdPreprocess == <<"Resize", "Normalize", "Permute">>

BaseYml(arch, upi) ==
    [arch |-> arch, Preprocess |-> StdPreprocess,
     use_python_inference |-> upi, min_subgraph_size |-> 3,
     label_list |-> <<"char">>]

WithKey(rec, key, v) ==
    [k \in DOMAIN rec \cup {key} |-> IF k = key THEN v ELSE rec[k]]

WithoutKey(rec, key) == [k \in DOMAIN rec \ {key} |-> rec[k]]

YmlConfs ==
    {BaseYml(a, u) : a \in ArchStrings, u \in BOOLEAN}
    \cup {WithKey(BaseYml(a, u), "mask_resolution", 28) :
            a \in ArchNames, u \in BOOLEAN}
    \cup {WithKey(BaseYml(a, u), "with_lmk", l) :
            a \in ArchNames, u \in BOOLEAN, l \in BOOLEAN}
    \cup {WithoutKey(BaseYml(a, FALSE), k) :
            a \in {YOLOv3, <<"S", "S">>},
            k \in {"arch", "label_list"}}

RunModes == {"fluid", "trt_fp32", "trt_fp16", "trt_int8", "trt_fp64"}

(***************************************************************************)
(* The construction stage.                                                 *)
(***************************************************************************)
Init ==
    /\ pc = "start"
    /\ config = None
    /\ detector = None
    /\ err = "none"
    /\ call = [op |-> "none"]
    /\ np_boxes = None

\* config = Config(model_dir)
LoadConfig ==
    /\ pc = "start"
    /\ \E yml_conf \in YmlConfs :
          LET r == ConfigInit(yml_conf) IN
          /\ config' = r.config
          /\ err' = r.err
          /\ pc' = IF r.err = "none" THEN "configured" ELSE "failed"
          /\ call' = [op |-> "Config", yml_conf |-> yml_conf]
    /\ UNCHANGED <<detector, np_boxes>>

\* detector = Detector(config, model_dir, use_gpu, run_mode), or the same
\* with the subclass DetectorSOLOv2, whose __init__ only calls Detector's.
CreateDetector ==
    /\ pc = "configured"
    /\ \E class \in DetectorClasses, use_gpu \in BOOLEAN, run_mode \in RunModes :
          LET r == New(class, config, use_gpu, run_mode) IN
          /\ detector' = r.detector
          /\ err' = r.err
          /\ pc' = IF r.err = "none" THEN "ready" ELSE "failed"
          /\ call' = [op |-> "Detector", use_gpu |-> use_gpu,
                      run_mode |-> run_mode]
    /\ UNCHANGED <<config, np_boxes>>

Next == LoadConfig \/ CreateDetector

Spec == Init /\ [][Next]_vars

(***************************************************************************)
(* Inputs of the decoding and prediction stages.                           *)
(***************************************************************************)
\* Images with the im_info the transforms compute for them: origin_shape is
\* im.shape[:2], that is (H, W); scales are in 1/32.
Images ==
    {[im |-> "im1",
      im_info |-> [origin_shape |-> <<480, 640>>, resize_shape |-> <<300, 300>>,
                   pad_shape |-> None, scale |-> <<15, 20>>]],
     [im |-> "im2",
      im_info |-> [origin_shape |-> <<100, 50>>, resize_shape |-> <<200, 100>>,
                   pad_shape |-> Some(<<224, 128>>), scale |-> <<64, 64>>]]}

\* Box rows [class_id, score, x_min, y_min, x_max, y_max]: two that pass a
\* threshold of 5, one whose score is 5, one sentinel row.
BoxRows ==
    {<<0, 6, 1, 2, 3, 4>>, <<1, 7, 2, 1, 4, 3>>, <<0, 5, 1, 1, 2, 2>>,
     <<-1, 9, 0, 0, 1, 1>>}

\* The [1, 1] tensor holding -1 that the models answer when nothing is found.
NoDetection == Arr(<<1, 1>>, << <<-1>> >>)

RawBoxes ==
    {Arr(<<Len(rows), 6>>, rows) :
        rows \in UNION {[1..k -> BoxRows] : k \in 0..MaxBoxes}}
    \cup {NoDetection}

Thresholds == {5, 6}

\* The mask tensor that goes with a box tensor: one entry per row.
MasksFor(boxes) ==
    Arr(<<Len(boxes.rows), 1, 28, 28>>,
        [i \in DOMAIN boxes.rows |-> <<"mask", i>>])

LmkOutputs == <<[name |-> "face_index"], [name |-> "landmark"],
                [name |-> "prior_box"]>>

\* What the loaded model answers, by position: boxes, then the masks of a
\* model exported with mask_resolution, then the landmark triple of one
\* exported with with_lmk.
BackendOutputs(cfg, boxes) ==
    <<boxes>>
    \o (IF cfg.mask_resolution # None THEN <<MasksFor(boxes)>> ELSE <<>>)
    \o (IF cfg.with_lmk = Some(TRUE) THEN LmkOutputs ELSE <<>>)

SoloOutputs ==
    {<<[label |-> <<0>>], [score |-> <<6>>], [segm |-> <<"segm1">>]>>,
     <<[label |-> <<0, 1>>], [score |-> <<4, 7>>],
       [segm |-> <<"segm1", "segm2">>]>>}

\* (warmup, repeats) with warmup >= 0, repeats >= 1.
RunCounts ==
    {wr \in (0..MaxRuns) \X (1..MaxRuns) : wr[1] + wr[2] <= MaxRuns}

DecoderYmls ==
    {BaseYml(a, FALSE) :
        a \in {YOLOv3, SSD, Face, SSDLite, BlazeFace, MaskRCNN}}

PredictYmls ==
    {BaseYml(a, u) :
        a \in {YOLOv3, SSD, SSDLite, MaskRCNN, BlazeFace, SOLOv2},
        u \in BOOLEAN}
    \cup {WithKey(BaseYml(MaskRCNN, u), "mask_resolution", 28) : u \in BOOLEAN}
    \cup {WithKey(BaseYml(BlazeFace, u), "with_lmk", l) :
            u \in BOOLEAN, l \in BOOLEAN}
    \cup {[BaseYml(YOLOv3, FALSE) EXCEPT !.Preprocess = <<"Resize", "Blur">>]}

\* The states main() is in once Config and the detector are built from one
\* of ymls, with the arguments of line 535.
Constructed(ymls, classes) ==
    \E yml_conf \in ymls, class \in classes :
        LET c == ConfigInit(yml_conf) IN
        /\ c.err = "none"
        /\ LET d == New(class, c.config, FALSE, "fluid") IN
           /\ d.err = "none"
           /\ config = c.config
           /\ detector = d.detector
    /\ pc = "ready"
    /\ err = "none"
    /\ call = [op |-> "Detector", use_gpu |-> FALSE, run_mode |-> "fluid"]
    /\ np_boxes = None

(***************************************************************************)
(* The decoding stage: the two functions called on their own.              *)
(***************************************************************************)
InitDecoder == Constructed(DecoderYmls, {"Detector"})

\* results = detector.postprocess(np_boxes, np_masks, np_lmk, im_info,
\* threshold); np_boxes is then the caller's array as the call left it.
Postprocess ==
    /\ pc = "ready"
    /\ \E boxes \in RawBoxes, masks_on \in BOOLEAN, lmk_on \in BOOLEAN,
          image \in Images, threshold \in Thresholds :
          LET masks == IF masks_on THEN MasksFor(boxes) ELSE None
              lmk == IF lmk_on THEN LmkOutputs ELSE None
              r == postprocess(config, boxes, masks, lmk, image.im_info,
                               threshold)
          IN  /\ call' = [op |-> "postprocess", np_boxes |-> boxes,
                          np_masks |-> masks, np_lmk |-> lmk,
                          im_info |-> image.im_info, threshold |-> threshold,
                          ret |-> r.results]
              /\ np_boxes' = r.np_boxes
              /\ err' = r.err
    /\ pc' = "returned"
    /\ UNCHANGED <<config, detector>>

\* inputs = create_inputs(im, im_info, model_arch)
CreateInputs ==
    /\ pc = "ready"
    /\ \E image \in Images, model_arch \in ArchNames :
          call' = [op |-> "create_inputs", im |-> image.im,
                   im_info |-> image.im_info, model_arch |-> model_arch,
                   ret |-> create_inputs(image.im, image.im_info, model_arch)]
    /\ err' = "none"
    /\ pc' = "returned"
    /\ UNCHANGED <<config, detector, np_boxes>>

\* The caller is done with what the call returned (as the loop of main() is
\* after printing it) and goes on to the next call.
NextImage ==
    /\ pc = "returned"
    /\ pc' = "ready"
    /\ call' = [op |-> "none"]
    /\ err' = "none"
    /\ np_boxes' = None
    /\ UNCHANGED <<config, detector>>

NextDecoder == Postprocess \/ CreateInputs \/ NextImage

SpecDecoder == InitDecoder /\ [][NextDecoder]_vars

(***************************************************************************)
(* The prediction stage.                                                   *)
(***************************************************************************)
InitPredict == Constructed(PredictYmls, DetectorClasses)

\* results = detector.predict(image, threshold, warmup, repeats,
\* run_benchmark) on a Detector.
Predict ==
    /\ pc = "ready"
    /\ detector.class = "Detector"
    /\ \E image \in Images, boxes \in RawBoxes, wr \in RunCounts,
          run_benchmark \in BOOLEAN :
          LET outs == BackendOutputs(config, boxes)
              r == predict(config, image, outs, 5, wr[1], wr[2], run_benchmark)
          IN  /\ call' = [op |-> "predict", image |-> image, outs |-> outs,
                          threshold |-> 5, warmup |-> wr[1], repeats |-> wr[2],
                          run_benchmark |-> run_benchmark,
                          inputs |-> r.inputs, runs |-> r.runs,
                          ret |-> r.results]
              /\ err' = r.err
    /\ pc' = "returned"
    /\ UNCHANGED <<config, detector, np_boxes>>

\* The same call on a DetectorSOLOv2.
PredictSOLOv2 ==
    /\ pc = "ready"
    /\ detector.class = "DetectorSOLOv2"
    /\ \E image \in Images, outs \in SoloOutputs, wr \in RunCounts,
          run_benchmark \in BOOLEAN :
          LET r == predictSOLOv2(config, image, outs, 5, wr[1], wr[2],
                                 run_benchmark)
          IN  /\ call' = [op |-> "predictSOLOv2", image |-> image,
                          outs |-> outs, threshold |-> 5, warmup |-> wr[1],
                          repeats |-> wr[2], run_benchmark |-> run_benchmark,
                          inputs |-> r.inputs, runs |-> r.runs,
                          ret |-> r.results]
              /\ err' = r.err
    /\ pc' = "returned"
    /\ UNCHANGED <<config, detector, np_boxes>>

NextPredict == Predict \/ PredictSOLOv2 \/ NextImage

SpecPredict == InitPredict /\ [][NextPredict]_vars

(***************************************************************************)
(* Properties.                                                             *)
(***************************************************************************)
\* m occurs in s: s = pre \o m \o suf for some pre and suf.
HasSubstring(m, s) ==
    \E i \in 0..Len(s), j \in 0..Len(s) : SubSeq(s, i + 1, j) = m

\* The indices of the rows that pass the filter.
KeptIndices(rows, threshold) ==
    {i \in DOMAIN rows : rows[i][2] > threshold /\ rows[i][1] > -1}

\* The elements of a set of numbers in ascending order.
Ascending(S) ==
    CHOOSE f \in [1..Cardinality(S) -> S] :
        \A a, b \in 1..Cardinality(S) : a < b => f[a] < f[b]

\* C1: loading a configuration that has its required keys succeeds, and
\* yields a Config with that architecture, if and only if the architecture
\* string contains one of the registered family names as a substring;
\* otherwise it fails with ValueError and no Config exists.
C1_LoadSucceedsIffFamilySubstring ==
    (call.op = "Config" /\ RequiredKeys \subseteq DOMAIN call.yml_conf) =>
        IF \E m \in SUPPORT_MODELS : HasSubstring(m, call.yml_conf.arch)
        THEN /\ err = "none"
             /\ pc = "configured"
             /\ config # None
             /\ config.arch = call.yml_conf.arch
        ELSE /\ err = "ValueError"
             /\ pc = "failed"
             /\ config = None

\* A suffixed variant name has been accepted.
C1_Witness ==
    /\ call.op = "Config"
    /\ config # None
    /\ config.arch = SSDLite

\* C5: whichever backend the configuration selects, constructing a Detector
\* with a run mode other than 'fluid' and use_gpu = False fails with
\* ValueError and yields no detector.
C5_ReducedPrecisionWithoutGpuRejected ==
    (call.op = "Detector" /\ call.run_mode # "fluid" /\ ~call.use_gpu) =>
        (err = "ValueError" /\ detector = None)

\* C6: constructing the optimized backend with a run mode other than
\* 'fluid', 'trt_fp32' and 'trt_fp16' fails with ValueError and yields no
\* predictor, also with use_gpu = True.
C6_UnsupportedRunModeRejected ==
    (/\ call.op = "Detector"
     /\ ~config.use_python_inference
     /\ call.run_mode \notin {"fluid", "trt_fp32", "trt_fp16"}) =>
        (err = "ValueError" /\ detector = None)

\* C2: postprocess returns exactly the rows whose score is above the
\* threshold and whose class_id is above -1, in their original order, each as
\* the decoder left it in the array (class_id and score as given); masks are
\* returned exactly when given, and are the mask entries at the same row
\* indices.
C2_FilterKeepsExactlyPassingRows ==
    (call.op = "postprocess" /\ err = "none") =>
        LET raw == call.np_boxes.rows
            idx == Ascending(KeptIndices(raw, call.threshold))
            out == call.ret.boxes.rows
        IN  /\ Len(out) = Cardinality(KeptIndices(raw, call.threshold))
            /\ \A k \in 1..Len(out) :
                  /\ out[k] = np_boxes.rows[idx[k]]
                  /\ out[k][1] = raw[idx[k]][1]
                  /\ out[k][2] = raw[idx[k]][2]
            /\ ("masks" \in DOMAIN call.ret) <=> (call.np_masks # None)
            /\ (call.np_masks # None) =>
                  /\ Len(call.ret.masks.rows) = Len(out)
                  /\ \A k \in 1..Len(out) :
                        call.ret.masks.rows[k] = call.np_masks.rows[idx[k]]

\* Of two rows with masks, the first has a score equal to the threshold and
\* is dropped, the second is kept with its own mask.
C2_Witness ==
    /\ call.op = "postprocess"
    /\ err = "none"
    /\ call.np_masks # None
    /\ Len(call.np_boxes.rows) = 2
    /\ call.np_boxes.rows[1][2] = call.threshold
    /\ call.np_boxes.rows[1][1] > -1
    /\ Len(call.ret.boxes.rows) = 1
    /\ call.ret.masks.rows = << <<"mask", 2>> >>

\* C3: for architecture SSD or Face and origin shape (H, W), every returned
\* row has x_min and x_max equal to the raw value times W and y_min and y_max
\* equal to the raw value times H; for every other architecture the returned
\* rows are the raw rows that pass the filter.
C3_ScalingByOriginShape ==
    (call.op = "postprocess" /\ err = "none") =>
        LET raw == call.np_boxes.rows
            idx == Ascending(KeptIndices(raw, call.threshold))
            out == call.ret.boxes.rows
            H == call.im_info.origin_shape[1]
            W == call.im_info.origin_shape[2]
        IN  /\ Len(out) = Cardinality(KeptIndices(raw, call.threshold))
            /\ \A k \in 1..Len(out) :
                  IF config.arch = SSD \/ config.arch = Face
                  THEN out[k] = <<raw[idx[k]][1], raw[idx[k]][2],
                                  raw[idx[k]][3] * W, raw[idx[k]][4] * H,
                                  raw[idx[k]][5] * W, raw[idx[k]][6] * H>>
                  ELSE out[k] = raw[idx[k]]

\* SSD, origin shape (480, 640): the row (1, 2, 3, 4) comes back as
\* (1 * 640, 2 * 480, 3 * 640, 4 * 480).
C3_Witness ==
    /\ call.op = "postprocess"
    /\ err = "none"
    /\ config.arch = SSD
    /\ call.im_info.origin_shape = <<480, 640>>
    /\ call.np_boxes.rows = << <<0, 6, 1, 2, 3, 4>> >>
    /\ call.ret.boxes.rows = << <<0, 6, 640, 960, 1920, 1920>> >>

\* C10: for every accepted architecture that contains 'SSD' or 'Face' as a
\* substring, the decoder scales x by the origin width and y by the origin
\* height.
C10_SubstringFamilyIsScaled ==
    (/\ call.op = "postprocess"
     /\ err = "none"
     /\ (HasSubstring(SSD, config.arch) \/ HasSubstring(Face, config.arch))) =>
        LET raw == call.np_boxes.rows
            idx == Ascending(KeptIndices(raw, call.threshold))
            out == call.ret.boxes.rows
            H == call.im_info.origin_shape[1]
            W == call.im_info.origin_shape[2]
        IN  /\ Len(out) = Cardinality(KeptIndices(raw, call.threshold))
            /\ \A k \in 1..Len(out) :
                  out[k] = <<raw[idx[k]][1], raw[idx[k]][2],
                             raw[idx[k]][3] * W, raw[idx[k]][4] * H,
                             raw[idx[k]][5] * W, raw[idx[k]][6] * H>>

\* C8: create_inputs returns 'image' and the extra tensors of the first
\* family, in the order YOLO; RetinaNet or EfficientDet; RCNN or FCOS; TTF;
\* SOLOv2, whose name the architecture contains, and 'image' alone when it
\* contains none of them.  pad_h and pad_w are im_info's pad shape, or its
\* resize shape when it has no pad shape.
C8_CreateInputsFirstMatch ==
    (call.op = "create_inputs") =>
        LET a == call.model_arch
            m == call.im_info
            origin == m.origin_shape
            resize == m.resize_shape
            pad == IF m.pad_shape = None THEN m.resize_shape
                   ELSE m.pad_shape.val
            sx == m.scale[1]
            sy == m.scale[2]
            F32(d) == [dtype |-> "float32", data |-> d]
            I32(d) == [dtype |-> "int32", data |-> d]
        IN  call.ret =
              IF HasSubstring(YOLO, a)
              THEN [image |-> call.im,
                    im_size |-> I32(<< <<origin[1], origin[2]>> >>)]
              ELSE IF HasSubstring(RetinaNet, a) \/ HasSubstring(EfficientDet, a)
              THEN [image |-> call.im,
                    im_info |-> F32(<< <<pad[1], pad[2], sx>> >>)]
              ELSE IF HasSubstring(RCNN, a) \/ HasSubstring(FCOS, a)
              THEN [image |-> call.im,
                    im_info |-> F32(<< <<pad[1], pad[2], sx>> >>),
                    im_shape |-> F32(<< <<origin[1], origin[2], 1>> >>)]
              ELSE IF HasSubstring(TTF, a)
              THEN [image |-> call.im,
                    scale_factor |-> F32(<<sx, sy, sx, sy>>)]
              ELSE IF HasSubstring(SOLOv2, a)
              THEN [image |-> call.im,
                    im_info |-> F32(<< <<resize[1], resize[2], sx>> >>)]
              ELSE [image |-> call.im]

\* A name that contains TTF and then FCOS got the RCNN/FCOS set.
C8_Witness ==
    /\ call.op = "create_inputs"
    /\ call.model_arch = TTF_FCOS
    /\ DOMAIN call.ret = {"image", "im_info", "im_shape"}
    /\ call.im_info.pad_shape # None

\* No row of the raw box tensor passes the filter.
NoRowSurvives(boxes, threshold) ==
    \A i \in DOMAIN boxes.rows :
        \/ Len(boxes.rows[i]) < 6
        \/ ~(boxes.rows[i][2] > threshold /\ boxes.rows[i][1] > -1)

\* C4: whenever no raw row survives the filter, predict returns and 'boxes'
\* is the empty marker np.array([]) of the no-detection path.
C4_NoSurvivorGivesEmptyMarker ==
    (/\ call.op = "predict"
     /\ ~call.run_benchmark
     /\ config.preprocess_infos = StdPreprocess
     /\ NoRowSurvives(call.outs[1], call.threshold)) =>
        (err = "none" /\ call.ret.boxes = EmptyArray)

\* C7: a predict call that returns has run the backend warmup + repeats
\* times and returns what the same call with warmup = 0 and repeats = 1
\* returns.
C7_WarmupRepeatsOnlyCountRuns ==
    (call.op \in {"predict", "predictSOLOv2"} /\ err = "none") =>
        /\ call.runs = call.warmup + call.repeats
        /\ call.ret =
             IF call.op = "predict"
             THEN predict(config, call.image, call.outs, call.threshold, 0, 1,
                          call.run_benchmark).results
             ELSE predictSOLOv2(config, call.image, call.outs, call.threshold,
                                0, 1, call.run_benchmark).results

\* A call with one warmup run and one timed run on the interpreted backend
\* has run it twice and returned boxes.
C7_Witness ==
    /\ call.op = "predict"
    /\ err = "none"
    /\ config.use_python_inference
    /\ call.warmup = 1
    /\ call.repeats = 1
    /\ call.runs = 2
    /\ ~call.run_benchmark
    /\ call.ret.boxes.rows # <<>>

\* C9: the components of predict's result are those the same call returns
\* under the other backend.
C9_ComponentsIndependentOfBackend ==
    (call.op = "predict" /\ err = "none") =>
        DOMAIN call.ret =
        DOMAIN predict([config EXCEPT !.use_python_inference = ~@],
                       call.image, call.outs, call.threshold, call.warmup,
                       call.repeats, call.run_benchmark).results

\* C11: postprocess leaves the array it was given as np_boxes unchanged, so
\* decoding it again with the same metadata and threshold returns the same
\* result, for every architecture.
C11_PostprocessLeavesRawBoxesUnchanged ==
    (call.op = "postprocess" /\ err = "none") =>
        /\ np_boxes = call.np_boxes
        /\ postprocess(config, np_boxes, call.np_masks, call.np_lmk,
                       call.im_info, call.threshold).results = call.ret

\* C12: a preprocessing step whose type is not a known transform never
\* surfaces for the first time inside a predict call on a constructed Config
\* and Detector: no predict call fails on resolving a step type.
C12_UnknownStepNeverSurfacesInPredict ==
    (call.op \in {"predict", "predictSOLOv2"}) =>
        /\ err # "NameError"
        /\ \A i \in DOMAIN config.preprocess_infos :
              config.preprocess_infos[i] \in KnownTransforms

====
